---- MODULE Spec2Model ----
(***************************************************************************)
(* Model of src/src/pulumi/mod.rs: the resolution-and-transformation core  *)
(* that turns container-app blueprints into compose-style service records. *)
(*                                                                         *)
(* Strings are TLA+ strings; a character is a string of length one.        *)
(* Option<T> is a sequence of length zero (None) or one (Some(v)).         *)
(* A call that can panic returns [panic, val]: panic = TRUE is the Rust    *)
(* panic (unwrap on None), which unwinds the whole call stack.             *)
(***************************************************************************)
EXTENDS Integers, Sequences, FiniteSets

VARIABLES
    apps,       \* build_configuration: the applications of `apps` taken so far
    images,     \* build_configuration: the `images` argument (the catalog)
    pc,         \* build_configuration: position in the function
    ctrIdx,     \* index of the container the flat_map closure is at
    a,          \* the per-application vector `a` being collected
    services,   \* the accumulated vector `services`
    fn,         \* unit harness: which function is called
    args,       \* unit harness: its arguments
    ret         \* unit harness: <<>> before the call, <<result>> after it

walkVars == <<apps, images, pc, ctrIdx, a, services>>
callVars == <<fn, args, ret>>
vars == <<apps, images, pc, ctrIdx, a, services, fn, args, ret>>

----------------------------------------------------------------------------
(* Option, panics *)

None == <<>>
Some(v) == <<v>>
IsSome(o) == o # <<>>
Unwrap(o) == o[1]

Panic == [panic |-> TRUE, val |-> <<>>]
Ret(v) == [panic |-> FALSE, val |-> v]

----------------------------------------------------------------------------
(* String primitives used by the source *)

\* &s[i..=j], empty when the range is empty or leaves the string
Sub(s, i, j) == IF 1 <= i /\ i <= j /\ j <= Len(s) THEN SubSeq(s, i, j) ELSE ""

At(s, i) == Sub(s, i, i)

\* str::contains
Contains(s, t) ==
    \E i \in 1..(Len(s) + 1 - Len(t)) : Sub(s, i, i + Len(t) - 1) = t

\* the regex `.`: any character but a line feed
Dot(c) == c # "\n"
AllDot(s, lo, hi) == \A p \in lo..hi : Dot(At(s, p))

Min(S) == CHOOSE x \in S : \A y \in S : x <= y
Max(S) == CHOOSE x \in S : \A y \in S : x >= y

\* str::replace: every non-overlapping occurrence, scanning left to right
RECURSIVE Replace(_, _, _)
Replace(s, from, to) ==
    IF Len(s) < Len(from) THEN s
    ELSE IF Sub(s, 1, Len(from)) = from
         THEN to \o Replace(Sub(s, Len(from) + 1, Len(s)), from, to)
         ELSE At(s, 1) \o Replace(Sub(s, 2, Len(s)), from, to)

\* u32::to_string: decimal digits, no padding
Digit(d) == At("0123456789", d + 1)
RECURSIVE to_string(_)
to_string(n) == IF n < 10 THEN Digit(n) ELSE to_string(n \div 10) \o Digit(n % 10)

\* Option<u32>::unwrap_or_default, Option<String>::unwrap_or_default
UnwrapOrZero(o) == IF IsSome(o) THEN Unwrap(o) ELSE 0
UnwrapOrEmpty(o) == IF IsSome(o) THEN Unwrap(o) ELSE ""

----------------------------------------------------------------------------
(* extract_and_parse_resource_name *)

\* positions of "${"
Starts(s) == { i \in 1..Len(s) : Sub(s, i, i + 1) = "${" }

\* (.+) from position lo, then the character c: the positions of c that end
\* a non-empty run of `.` starting at lo
GroupEnds(s, lo, c) ==
    { p \in (lo + 1)..Len(s) : At(s, p) = c /\ AllDot(s, lo, p - 1) }

\* Regex \$\{(.+)\.(.+)\} : <<i, j, k>> with "${" at i, the separating "."
\* at j and the closing "}" at k; both groups are non-empty runs of `.`
ResourceMatches(s) ==
    UNION { UNION { { <<i, j, k>> : k \in GroupEnds(s, j + 1, "}") } :
                    j \in GroupEnds(s, i + 2, ".") } :
            i \in Starts(s) }

\* Regex::captures: leftmost match; each greedy group as long as it can be
ResourceCaptures(s) ==
    LET M == ResourceMatches(s) IN
    IF M = {} THEN None
    ELSE LET i == Min({ m[1] : m \in M })
             j == Max({ m[2] : m \in { n \in M : n[1] = i } })
             k == Max({ m[3] : m \in { n \in M : n[1] = i /\ n[2] = j } })
         IN  Some([g1 |-> Sub(s, i + 2, j - 1), g2 |-> Sub(s, j + 1, k - 1)])

\* extract_and_parse_resource_name taking is_reference from the regex match
extract_by_match(s) ==
    LET v == ResourceCaptures(s)
    IN  IF IsSome(v)
        THEN [name |-> Unwrap(v).g1, property |-> Some(Unwrap(v).g2),
              is_reference |-> TRUE]
        ELSE [name |-> s, property |-> None, is_reference |-> FALSE]

extract_and_parse_resource_name(s) ==
    LET is_reference == Contains(s, "${")
        v == ResourceCaptures(s)
    IN  IF IsSome(v)
        THEN [name |-> Unwrap(v).g1, property |-> Some(Unwrap(v).g2),
              is_reference |-> is_reference]
        ELSE [name |-> s, property |-> None, is_reference |-> is_reference]

----------------------------------------------------------------------------
(* check_and_match_reference *)

\* FindImage keeping the last entry that matches instead of the first
FindImageLast(imgs, name, i) ==
    LET hits == { k \in i..Len(imgs) : imgs[k].referenceName = Some(name) }
    IN  IF \E k \in i..Len(imgs) : ~IsSome(imgs[k].referenceName) THEN Panic
        ELSE IF hits = {} THEN Ret(None)
        ELSE Ret(Some(imgs[Max(hits)]))

\* images.iter().find(|image| image.referenceName.clone().unwrap() == name):
\* entries are visited in order and each visited entry's referenceName is
\* unwrapped; the search stops at the first entry that matches.
RECURSIVE FindImage(_, _, _)
FindImage(imgs, name, i) ==
    IF i > Len(imgs) THEN Ret(None)
    ELSE IF ~IsSome(imgs[i].referenceName) THEN Panic
    ELSE IF Unwrap(imgs[i].referenceName) = name THEN Ret(Some(imgs[i]))
    ELSE FindImage(imgs, name, i + 1)

\* Regex (\$\{.+\})(/)(.+) : <<i, e>> with "${" at i and the "}" that is
\* followed by "/" at e; group 3 starts at e + 2 and is not empty
ContextMatches(s) ==
    UNION { { <<i, e>> : e \in { p \in GroupEnds(s, i + 2, "}") :
                                   /\ At(s, p + 1) = "/"
                                   /\ p + 2 <= Len(s)
                                   /\ Dot(At(s, p + 2)) } } :
            i \in Starts(s) }

ContextCaptures(s) ==
    LET M == ContextMatches(s) IN
    IF M = {} THEN None
    ELSE LET i == Min({ m[1] : m \in M })
             e == Max({ m[2] : m \in { n \in M : n[1] = i } })
             z == Max({ p \in (e + 2)..Len(s) : AllDot(s, e + 2, p) })
         IN  Some([g1 |-> Sub(s, i, e), g3 |-> Sub(s, e + 2, z)])

check_and_match_reference(imgs, resource) ==
    LET name == resource.name
        found == FindImage(imgs, name, 1)
    IN  IF found.panic THEN Panic
        ELSE IF IsSome(found.val)
        THEN LET val == Unwrap(found.val)
                 c == ContextCaptures(val.build.context)
             IN  IF ~IsSome(c) THEN Panic
                 ELSE LET image_name == Unwrap(c).g3
                          context_path == Unwrap(c).g1
                      IN  IF image_name = "" \/ context_path = ""
                          THEN Ret(None)
                          ELSE Ret(Some([name |-> None,
                                         path |-> Some(Replace(context_path, "${pulumi.cwd}", ".")
                                                       \o "/" \o image_name),
                                         is_context |-> TRUE]))
        ELSE IF resource.is_reference
             THEN Ret(None)
             ELSE Ret(Some([name |-> Some(name), path |-> None, is_context |-> FALSE]))

build_image_for_serialization(imgs, container) ==
    check_and_match_reference(imgs, extract_and_parse_resource_name(container.image))

----------------------------------------------------------------------------
(* build_ports_mapping_for_serialization *)

\* FormatMapping with its two ports exchanged
FormatMappingSwapped(x, y) ==
    to_string(UnwrapOrZero(y)) \o ":" \o to_string(UnwrapOrZero(x))

\* format!("{}:{}", x.unwrap_or_default().to_string(), y.unwrap_or_default().to_string())
FormatMapping(x, y) ==
    to_string(UnwrapOrZero(x)) \o ":" \o to_string(UnwrapOrZero(y))

build_ports_mapping_for_serialization(configuration) ==
    LET dapr_configuration == configuration.dapr_configuration
        ingress_configuration == configuration.ingress_configuration
        container_name == configuration.container.name
        has_dapr_enabled ==
            IF IsSome(dapr_configuration)
            THEN IsSome(Unwrap(dapr_configuration).enabled)
                 /\ Unwrap(Unwrap(dapr_configuration).enabled) = TRUE
            ELSE FALSE
        has_ingress_exposed ==
            IF IsSome(ingress_configuration)
            THEN IsSome(Unwrap(ingress_configuration).external)
                 /\ Unwrap(Unwrap(ingress_configuration).external) = TRUE
            ELSE FALSE
        dapr_app_port ==
            IF IsSome(dapr_configuration) THEN Unwrap(dapr_configuration).appPort ELSE None
        dapr_app_id ==
            IF IsSome(dapr_configuration) THEN Unwrap(dapr_configuration).appId ELSE None
        ingress_app_port ==
            IF IsSome(ingress_configuration)
            THEN Unwrap(ingress_configuration).targetPort ELSE None
        ports1 ==
            IF has_dapr_enabled /\ has_ingress_exposed
               /\ container_name = UnwrapOrEmpty(dapr_app_id)
            THEN << FormatMapping(ingress_app_port, dapr_app_port) >>
            ELSE << >>
        ports ==
            IF (~has_dapr_enabled) /\ has_ingress_exposed
            THEN Append(ports1, FormatMapping(ingress_app_port, ingress_app_port))
            ELSE ports1
    IN  << dapr_app_port, IF ports # << >> THEN Some(ports) ELSE None >>

----------------------------------------------------------------------------
(* parse_app_configuration *)

\* BuildOf with the is_context test lost: a build context on every record
BuildOfAlways(image) == Some([context |-> UnwrapOrEmpty(image.path)])

\* image.is_context.then(|| BuildContext { context: image.path.unwrap() })
BuildOf(image) ==
    IF image.is_context THEN Some([context |-> Unwrap(image.path)]) ELSE None

PrimaryWithDapr(image, name, ports) ==
    [image |-> image.name, build |-> BuildOf(image), name |-> name,
     depends_on |-> Some(<<"placement">>), networks |-> Some(<<"dapr-network">>),
     network_mode |-> None, environment |-> None, ports |-> ports, command |-> None]

\* DaprSidecar depending on the placement service, as the primary does
DaprSidecarOnPlacement(name, dapr_app_port) ==
    [image |-> Some("daprio/daprd:edge"), build |-> None, name |-> name \o "_dapr",
     depends_on |-> Some(<<"placement">>), networks |-> None,
     network_mode |-> Some("service:" \o name), environment |-> None, ports |-> None,
     command |-> Some(<<"./daprd", "-app-id", name, "-app-port",
                        to_string(UnwrapOrZero(dapr_app_port)),
                        "-placement-host-address", "placement:50006", "air">>)]

DaprSidecar(name, dapr_app_port) ==
    [image |-> Some("daprio/daprd:edge"), build |-> None, name |-> name \o "_dapr",
     depends_on |-> Some(<<name>>), networks |-> None,
     network_mode |-> Some("service:" \o name), environment |-> None, ports |-> None,
     command |-> Some(<<"./daprd", "-app-id", name, "-app-port",
                        to_string(UnwrapOrZero(dapr_app_port)),
                        "-placement-host-address", "placement:50006", "air">>)]

PrimaryWithoutDapr(image, name, ports) ==
    [image |-> image.name, build |-> BuildOf(image), name |-> name,
     depends_on |-> None, networks |-> None,
     network_mode |-> None, environment |-> None, ports |-> ports, command |-> None]

parse_app_configuration(imgs, configuration) ==
    LET container == configuration.container
        dapr_configuration == configuration.dapr_configuration
        resolved == build_image_for_serialization(imgs, container)
    IN  IF resolved.panic THEN Panic
        ELSE IF ~IsSome(resolved.val) THEN Ret(None)
        ELSE LET image == Unwrap(resolved.val)
                 name == configuration.container.name
                 pm == build_ports_mapping_for_serialization(configuration)
                 dapr_app_port == pm[1]
                 ports == pm[2]
             IN  IF IsSome(dapr_configuration) /\ ~IsSome(Unwrap(dapr_configuration).enabled)
                 THEN Panic
                 ELSE IF image.is_context /\ ~IsSome(image.path) THEN Panic
                 ELSE LET has_dapr_enabled ==
                              IF IsSome(dapr_configuration)
                              THEN Unwrap(Unwrap(dapr_configuration).enabled)
                              ELSE FALSE
                      IN  IF has_dapr_enabled
                          THEN Ret(Some(<< PrimaryWithDapr(image, name, ports),
                                           DaprSidecar(name, dapr_app_port) >>))
                          ELSE Ret(Some(<< PrimaryWithoutDapr(image, name, ports) >>))

----------------------------------------------------------------------------
(* Blueprints *)

MaxApps == 2          \* applications in a blueprint
MaxContainers == 2    \* containers in a blueprint, over all its applications

ContainerImageBluePrint(referenceName, context) ==
    [referenceName |-> referenceName, build |-> [context |-> context]]

DaprBluePrint(enabled, appPort, appId) ==
    [enabled |-> enabled, appPort |-> appPort, appId |-> appId]

IngressBluePrint(external, targetPort) ==
    [external |-> external, targetPort |-> targetPort]

ContainerAppBluePrint(containers, dapr, ingress) ==
    [template |-> [containers |-> containers],
     configuration |-> [dapr |-> dapr, ingress |-> ingress]]

RECURSIVE SeqsOfLen(_, _)
SeqsOfLen(S, n) ==
    IF n = 0 THEN { << >> }
    ELSE { Append(q, x) : q \in SeqsOfLen(S, n - 1), x \in S }

WalkContainers ==
    { [image |-> "node-12", name |-> "myapp"],
      [image |-> "${myImage.name}", name |-> "t"],
      [image |-> "${other.name}", name |-> "web"] }

WalkDapr ==
    { None,
      Some(DaprBluePrint(None, Some(3000), Some("myapp"))),
      Some(DaprBluePrint(Some(FALSE), Some(3000), Some("myapp"))),
      Some(DaprBluePrint(Some(TRUE), Some(3000), Some("myapp"))) }

WalkIngress == { Some(IngressBluePrint(Some(TRUE), Some(80))) }

WalkCatalogs ==
    { << >>,
      << ContainerImageBluePrint(Some("myImage"), "${pulumi.cwd}/node-app") >>,
      << ContainerImageBluePrint(None, "${pulumi.cwd}/node-app") >> }

\* applications with exactly n containers; `containers: None` has none
AppsOfSize(n) ==
    { ContainerAppBluePrint(c, d, i) :
        c \in { Some(q) : q \in SeqsOfLen(WalkContainers, n) }
              \cup (IF n = 0 THEN { None } ELSE {}),
        d \in WalkDapr, i \in WalkIngress }

ContainerCount(app) ==
    IF IsSome(app.template.containers) THEN Len(Unwrap(app.template.containers)) ELSE 0

RECURSIVE TotalContainers(_)
TotalContainers(as) ==
    IF as = << >> THEN 0
    ELSE ContainerCount(Head(as)) + TotalContainers(Tail(as))

----------------------------------------------------------------------------
(* build_configuration, one step of its loops per action.  `apps` holds the *)
(* applications the `for app in apps` loop has taken so far; the one being  *)
(* processed is the last.  The blueprint ends where Return is taken.        *)

AppConfigurationOf(app, container) ==
    [container |-> container,
     dapr_configuration |-> app.configuration.dapr,
     ingress_configuration |-> app.configuration.ingress]

\* .flat_map(..).flatten(): an Option<Vec<_>> yields its records, or nothing
Flatten(o) == IF IsSome(o) THEN Unwrap(o) ELSE << >>

\* AppendAll putting the new records in front
AppendAllInFront(v, w) == w \o v

\* services.append(&mut a)
AppendAll(v, w) == v \o w

CurrentApp == apps[Len(apps)]
CurrentContainers == Unwrap(CurrentApp.template.containers)

\* `for app in apps`: the next application; containers.unwrap()
NextApp(app) ==
    /\ pc = "loop"
    /\ Len(apps) < MaxApps
    /\ TotalContainers(apps) + ContainerCount(app) <= MaxContainers
    /\ apps' = Append(apps, app)
    /\ ctrIdx' = 0
    /\ IF IsSome(app.template.containers)
       THEN pc' = "collect" /\ a' = << >> /\ UNCHANGED services
       ELSE pc' = "panic" /\ a' = << >> /\ services' = << >>
    /\ UNCHANGED <<images, fn, args, ret>>

\* the flat_map closure on the next container of the current application
ParseContainer ==
    /\ pc = "collect"
    /\ ctrIdx < Len(CurrentContainers)
    /\ ctrIdx' = ctrIdx + 1
    /\ LET r == parse_app_configuration(
                    images, AppConfigurationOf(CurrentApp, CurrentContainers[ctrIdx + 1]))
       IN  IF r.panic
           THEN pc' = "panic" /\ a' = << >> /\ services' = << >>
           ELSE pc' = pc /\ a' = AppendAll(a, Flatten(r.val)) /\ UNCHANGED services
    /\ UNCHANGED <<apps, images, fn, args, ret>>

\* collect() is complete: services.append(&mut a) leaves `a` empty
AppendApp ==
    /\ pc = "collect"
    /\ ctrIdx = Len(CurrentContainers)
    /\ services' = AppendAll(services, a)
    /\ a' = << >>
    /\ pc' = "loop"
    /\ UNCHANGED <<apps, images, ctrIdx, fn, args, ret>>

\* no application is left: `services` is returned
Return ==
    /\ pc = "loop"
    /\ pc' = "done"
    /\ UNCHANGED <<apps, images, ctrIdx, a, services, fn, args, ret>>

CallIdle == fn = "none" /\ args = << >> /\ ret = << >>

Init ==
    /\ apps = << >>
    /\ images \in WalkCatalogs
    /\ pc = "loop"
    /\ ctrIdx = 0
    /\ a = << >>
    /\ services = << >>
    /\ CallIdle

Next ==
    \/ \E n \in 0..MaxContainers : \E app \in AppsOfSize(n) : NextApp(app)
    \/ ParseContainer
    \/ AppendApp
    \/ Return

Spec == Init /\ [][Next]_vars

----------------------------------------------------------------------------
(* The functions called on their own, as the tests of the source call them:  *)
(* the arguments are drawn at the start and one action applies the function. *)

MaxLen == 6           \* length of the image expressions enumerated over Alphabet
MaxImages == 2        \* entries of an image catalog

Alphabet == { "$", "{", "}", ".", "a" }

RECURSIVE StringsOfLen(_)
StringsOfLen(n) ==
    IF n = 0 THEN { "" }
    ELSE { q \o c : q \in StringsOfLen(n - 1), c \in Alphabet }

ImageExprs ==
    { "node-12", "resource", "${resource.property}", "${myImage.name}",
      "imageName", "registry/imageName:v1", "${imageName",
      "${registry.loginServer}/node-app:v1.0.0", "${a.b} and ${c.d}",
      "${a\n.b}", "${a.b\n}", "x\n${a.b}" }

ReferenceNames == { None, Some("myImage"), Some("node-12") }

Contexts ==
    { "${pulumi.cwd}/node-app", "./node-app", "${pulumi.cwd}",
      "src/${pulumi.cwd}/app", "${pulumi.cwd}/${pulumi.cwd}",
      "${env.dir}/app", "${pulumi.cwd}/a/${pulumi.cwd}/b" }

CatalogEntries ==
    { ContainerImageBluePrint(r, c) : r \in ReferenceNames, c \in Contexts }

Resources ==
    { [name |-> n, property |-> IF r THEN Some("name") ELSE None, is_reference |-> r] :
        n \in { "myImage", "node-12", "other" }, r \in BOOLEAN }

Ports == { None, Some(0), Some(80), Some(3000) }
OptBool == { None, Some(FALSE), Some(TRUE) }

PortsDapr ==
    { None } \cup
    { Some(DaprBluePrint(e, p, i)) :
        e \in OptBool, p \in Ports, i \in { None, Some(""), Some("myapp"), Some("t") } }
PortsIngress ==
    { None } \cup { Some(IngressBluePrint(e, p)) : e \in OptBool, p \in Ports }
PortsContainers ==
    { [image |-> "${myImage.name}", name |-> n] : n \in { "", "myapp", "t" } }

ParseDapr ==
    { None } \cup
    { Some(DaprBluePrint(e, p, i)) :
        e \in OptBool, p \in { None, Some(3000) }, i \in { None, Some("myapp") } }
ParseIngress ==
    { None } \cup
    { Some(IngressBluePrint(e, p)) : e \in OptBool, p \in { None, Some(80) } }
ParseContainers ==
    { [image |-> i, name |-> n] :
        i \in { "node-12", "${myImage.name}", "${other.name}" }, n \in { "myapp", "t" } }
ParseCatalogs ==
    { << >>,
      << ContainerImageBluePrint(Some("myImage"), "${pulumi.cwd}/node-app") >>,
      << ContainerImageBluePrint(Some("node-12"), "${pulumi.cwd}/node-app") >>,
      << ContainerImageBluePrint(Some("myImage"), "./node-app") >>,
      << ContainerImageBluePrint(None, "${pulumi.cwd}/node-app") >> }

WalkIdle ==
    /\ apps = << >> /\ images = << >> /\ pc = "idle"
    /\ ctrIdx = 0 /\ a = << >> /\ services = << >>

InitCalls ==
    /\ WalkIdle
    /\ ret = << >>
    /\ \/ /\ fn = "extract_and_parse_resource_name"
          /\ \E n \in 0..MaxLen : \E s \in StringsOfLen(n) : args = [s |-> s]
       \/ /\ fn = "extract_and_parse_resource_name"
          /\ \E s \in ImageExprs : args = [s |-> s]
       \/ /\ fn = "check_and_match_reference"
          /\ \E n \in 0..MaxImages : \E c \in SeqsOfLen(CatalogEntries, n) :
               \E r \in Resources : args = [images |-> c, resource |-> r]
       \/ /\ fn = "build_ports_mapping_for_serialization"
          /\ \E c \in PortsContainers, d \in PortsDapr, i \in PortsIngress :
               args = [configuration |-> [container |-> c, dapr_configuration |-> d,
                                          ingress_configuration |-> i]]
       \/ /\ fn = "parse_app_configuration"
          /\ \E g \in ParseCatalogs, c \in ParseContainers, d \in ParseDapr,
                i \in ParseIngress :
               args = [images |-> g,
                       configuration |-> [container |-> c, dapr_configuration |-> d,
                                          ingress_configuration |-> i]]

Called(f) == fn = f /\ ret = << >>
Returned(f) == fn = f /\ ret # << >>

CallExtract ==
    /\ Called("extract_and_parse_resource_name")
    /\ ret' = << extract_and_parse_resource_name(args.s) >>
    /\ UNCHANGED <<fn, args, walkVars>>

CallCheck ==
    /\ Called("check_and_match_reference")
    /\ ret' = << check_and_match_reference(args.images, args.resource) >>
    /\ UNCHANGED <<fn, args, walkVars>>

CallPorts ==
    /\ Called("build_ports_mapping_for_serialization")
    /\ ret' = << build_ports_mapping_for_serialization(args.configuration) >>
    /\ UNCHANGED <<fn, args, walkVars>>

CallParse ==
    /\ Called("parse_app_configuration")
    /\ ret' = << parse_app_configuration(args.images, args.configuration) >>
    /\ UNCHANGED <<fn, args, walkVars>>

NextCalls == CallExtract \/ CallCheck \/ CallPorts \/ CallParse

SpecCalls == InitCalls /\ [][NextCalls]_vars

----------------------------------------------------------------------------
(* Properties of the walk (Spec) *)

\* what the walk has produced so far, or the panic that ended it
Outcome == IF pc = "panic" THEN Panic ELSE Ret(services)

RecordsOfContainer(app, container) ==
    Flatten(parse_app_configuration(images, AppConfigurationOf(app, container)).val)

RECURSIVE RecordsOfContainers(_, _)
RecordsOfContainers(app, cs) ==
    IF cs = << >> THEN << >>
    ELSE RecordsOfContainer(app, Head(cs)) \o RecordsOfContainers(app, Tail(cs))

\* the records of the applications `as`, application after application and,
\* in each, container after container
RECURSIVE RecordsOfApps(_)
RecordsOfApps(as) ==
    IF as = << >> THEN << >>
    ELSE RecordsOfContainers(Head(as), Flatten(Head(as).template.containers))
         \o RecordsOfApps(Tail(as))

IsSidecar(r) == IsSome(r.command)

\* C1: every record the walk has emitted (in `services`, or in `a` for the
\* application being collected) has exactly one image source: `image` is
\* populated or `build` is, never both and never neither.
C1_ExactlyOneImageSource ==
    \A r \in { services[i] : i \in 1..Len(services) } \cup { a[i] : i \in 1..Len(a) } :
        IsSome(r.image) # IsSome(r.build)

\* C1 witness: a finished walk whose output holds a primary record with a
\* literal image, a primary record with a build context, and a sidecar.
C1_Witness ==
    /\ pc = "done"
    /\ \E i, j, k \in 1..Len(services) :
         /\ ~IsSidecar(services[i]) /\ IsSome(services[i].image)
         /\ ~IsSidecar(services[j]) /\ IsSome(services[j].build)
         /\ IsSidecar(services[k])

\* the claims' own notions, read off the blueprint
MeshEnabled(app) ==
    /\ IsSome(app.configuration.dapr)
    /\ Unwrap(app.configuration.dapr).enabled = Some(TRUE)

\* the image is a literal, or a reference some catalog entry carries
Resolvable(container) ==
    LET r == extract_and_parse_resource_name(container.image)
    IN  \/ ~r.is_reference
        \/ \E i \in 1..Len(images) : images[i].referenceName = Some(r.name)

RECURSIVE SumOver(_, _, _)
SumOver(app, cs, i) ==
    IF i > Len(cs) THEN 0
    ELSE (IF ~Resolvable(cs[i]) THEN 0 ELSE IF MeshEnabled(app) THEN 2 ELSE 1)
         + SumOver(app, cs, i + 1)

RECURSIVE ExpectedCount(_)
ExpectedCount(as) ==
    IF as = << >> THEN 0
    ELSE SumOver(Head(as), Flatten(Head(as).template.containers), 1)
         + ExpectedCount(Tail(as))

\* C2: the walk over a blueprint ends with an output whose length is the sum,
\* over the resolvable containers, of 2 where the application's mesh has
\* enabled == true and of 1 where the mesh is absent or not enabled;
\* unresolvable containers count 0.  Stated over the blueprints whose
\* applications all have a container list and whose catalog entries all carry
\* a referenceName, so that what refutes it is the mesh test itself.
C2_RecordCount ==
    ( /\ pc \in { "done", "panic" }
      /\ \A i \in 1..Len(apps) : IsSome(apps[i].template.containers)
      /\ \A i \in 1..Len(images) : IsSome(images[i].referenceName) )
    => pc = "done" /\ Len(services) = ExpectedCount(apps)

\* C3: the output is the records of the applications in their order and, in
\* each application, of its containers in their order (dropped containers
\* leave the others in place); and every sidecar record comes right after
\* the primary record of its container, whose name it extends by "_dapr".
C3_OutputOrder ==
    /\ pc \in { "loop", "done" } => services = RecordsOfApps(apps)
    /\ \A j \in 1..Len(services) :
         IsSidecar(services[j]) =>
            /\ j > 1
            /\ ~IsSidecar(services[j - 1])
            /\ services[j].name = services[j - 1].name \o "_dapr"

\* C3 witness: a finished walk over two applications that both contributed,
\* the first one a primary record and its sidecar.
C3_Witness ==
    /\ pc = "done"
    /\ Len(apps) = 2
    /\ Len(RecordsOfApps(<< apps[1] >>)) = 2
    /\ RecordsOfApps(<< apps[2] >>) # << >>
    /\ IsSidecar(services[2])
    /\ services[3].name # services[1].name

----------------------------------------------------------------------------
(* Properties of the functions called on their own (SpecCalls) *)

\* the claims' own reading of a port: its decimal digits, 0 when absent
C4_Decimal(o) ==
    CASE o = None -> "0" [] o = Some(0) -> "0"
      [] o = Some(80) -> "80" [] o = Some(3000) -> "3000"

C4_MeshEnabled ==
    /\ IsSome(args.configuration.dapr_configuration)
    /\ Unwrap(args.configuration.dapr_configuration).enabled = Some(TRUE)
C4_IngressExternal ==
    /\ IsSome(args.configuration.ingress_configuration)
    /\ Unwrap(args.configuration.ingress_configuration).external = Some(TRUE)
C4_AppPort ==
    IF IsSome(args.configuration.dapr_configuration)
    THEN Unwrap(args.configuration.dapr_configuration).appPort ELSE None
C4_AppId ==
    IF IsSome(args.configuration.dapr_configuration)
       /\ IsSome(Unwrap(args.configuration.dapr_configuration).appId)
    THEN Unwrap(Unwrap(args.configuration.dapr_configuration).appId) ELSE ""
C4_TargetPort ==
    IF IsSome(args.configuration.ingress_configuration)
    THEN Unwrap(args.configuration.ingress_configuration).targetPort ELSE None

\* C4: the truth table of build_ports_mapping_for_serialization.  The first
\* component is mesh.appPort as it is; the second is one mapping
\* "<targetPort>:<appPort>" when the mesh is enabled, the ingress external
\* and the container name the appId, one mapping "<targetPort>:<targetPort>"
\* when the mesh is not enabled and the ingress external, and None otherwise
\* (never Some of an empty list); absent ports read 0.
C4_PortTruthTable ==
    Returned("build_ports_mapping_for_serialization") =>
        LET name == args.configuration.container.name
            mappings ==
                IF C4_MeshEnabled /\ C4_IngressExternal /\ name = C4_AppId
                THEN Some(<< C4_Decimal(C4_TargetPort) \o ":" \o C4_Decimal(C4_AppPort) >>)
                ELSE IF ~C4_MeshEnabled /\ C4_IngressExternal
                THEN Some(<< C4_Decimal(C4_TargetPort) \o ":" \o C4_Decimal(C4_TargetPort) >>)
                ELSE None
        IN  /\ ret[1] = << C4_AppPort, mappings >>
            /\ ret[1][2] # Some(<< >>)

\* C4 witness: mesh enabled, ingress external, container name equal to the
\* appId, ports 80 and 3000: the call has returned (80, ["3000:80"]).
C4_Witness ==
    /\ Returned("build_ports_mapping_for_serialization")
    /\ C4_MeshEnabled /\ C4_IngressExternal
    /\ args.configuration.container.name = C4_AppId
    /\ ret[1] = << Some(80), Some(<< "3000:80" >>) >>

\* C5 (as claimed): a reference classified as a literal (is_reference = FALSE)
\* resolves, whatever the catalog holds, to its own name as a literal image,
\* with no build context.  Stated over the calls that return, so that what
\* refutes it is the catalog lookup itself.
C5_LiteralSkipsCatalog ==
    ( /\ Returned("check_and_match_reference")
      /\ ~args.resource.is_reference
      /\ ~ret[1].panic )
    => ret[1].val = Some([name |-> Some(args.resource.name), path |-> None,
                          is_context |-> FALSE])

\* the first catalog entry that carries the name, if any entry does
C9_Match ==
    LET hits == { i \in 1..Len(args.images) :
                    args.images[i].referenceName = Some(args.resource.name) }
    IN  IF hits = {} THEN None ELSE Some(args.images[Min(hits)])

\* C9 (as claimed): whenever a reference matches an entry of a catalog whose
\* entries all carry a referenceName, the resolution succeeds with
\* is_context = TRUE, no literal name, and the entry's build-context
\* expression with every "${pulumi.cwd}" replaced by "." and every other
\* character unchanged; no build-context expression makes it fail.
C9_BuildContextSubstitution ==
    ( /\ Returned("check_and_match_reference")
      /\ args.resource.is_reference
      /\ IsSome(C9_Match)
      /\ \A i \in 1..Len(args.images) : IsSome(args.images[i].referenceName) )
    => ret[1] = Ret(Some([name |-> None,
                          path |-> Some(Replace(Unwrap(C9_Match).build.context,
                                                "${pulumi.cwd}", ".")),
                          is_context |-> TRUE]))

C7_Dapr == args.configuration.dapr_configuration

\* C7 (as claimed): for a container whose image resolves,
\* parse_app_configuration returns records whatever is absent in mesh and
\* ingress; a mesh whose `enabled` is absent counts as disabled, as it does
\* for the port resolver: one record, without depends_on, networks,
\* network_mode and command.
C7_AbsenceIsNotAnError ==
    ( /\ Returned("parse_app_configuration")
      /\ LET i == build_image_for_serialization(args.images, args.configuration.container)
         IN  ~i.panic /\ IsSome(i.val) )
    => /\ ~ret[1].panic
       /\ IsSome(ret[1].val)
       /\ (IsSome(C7_Dapr) /\ Unwrap(C7_Dapr).enabled = None) =>
             /\ Len(Unwrap(ret[1].val)) = 1
             /\ LET r == Unwrap(ret[1].val)[1]
                IN  /\ r.depends_on = None /\ r.networks = None
                    /\ r.network_mode = None /\ r.command = None

\* the interpolation pattern ${<resourceName>.<propertyName>}
C8_HasPattern(s) == ResourceMatches(s) # {}

Without(as, i, k) ==
    LET cs == Unwrap(as[i].template.containers)
    IN  [as EXCEPT ![i].template.containers =
            Some(SubSeq(cs, 1, k - 1) \o SubSeq(cs, k + 1, Len(cs)))]

\* what build_configuration makes of the blueprint `as`: a panic anywhere
\* ends the whole call
PanicsOn(as) ==
    \E i \in 1..Len(as) :
        \/ ~IsSome(as[i].template.containers)
        \/ \E k \in 1..Len(Unwrap(as[i].template.containers)) :
             parse_app_configuration(
                 images, AppConfigurationOf(as[i], Unwrap(as[i].template.containers)[k])).panic

BuildOutcome(as) == IF PanicsOn(as) THEN Panic ELSE Ret(RecordsOfApps(as))

\* an image that is a reference to a name no catalog entry carries
Unresolvable(container) ==
    LET r == extract_and_parse_resource_name(container.image)
    IN  /\ r.is_reference
        /\ \A i \in 1..Len(images) : images[i].referenceName # Some(r.name)

\* C6 (as claimed): a container whose image is a reference to a name that no
\* catalog entry carries is dropped and nothing else changes: the walk ends
\* as it would on the blueprint without that container.
C6_UnresolvableDroppedLocally ==
    pc \in { "done", "panic" } =>
        \A i \in 1..Len(apps) :
            IsSome(apps[i].template.containers) =>
                \A k \in 1..Len(Unwrap(apps[i].template.containers)) :
                    Unresolvable(Unwrap(apps[i].template.containers)[k]) =>
                        Outcome = BuildOutcome(Without(apps, i, k))

\* C10 (as claimed): no blueprint and no catalog make build_configuration
\* abort: the walk never panics.
C10_NoGlobalFailure == pc # "panic"

----------------------------------------------------------------------------
(* Record shapes of parse_app_configuration (SpecCalls) *)

C11_Name == args.configuration.container.name
C11_Dapr == args.configuration.dapr_configuration
C11_MeshEnabled == IsSome(C11_Dapr) /\ Unwrap(C11_Dapr).enabled = Some(TRUE)
C11_AppPort == IF IsSome(C11_Dapr) THEN Unwrap(C11_Dapr).appPort ELSE None
C11_Ports == build_ports_mapping_for_serialization(args.configuration)[2]
C11_Image ==
    Unwrap(build_image_for_serialization(args.images, args.configuration.container).val)

\* the image source of a primary record: the resolved literal name, or the
\* resolved build context
C11_PrimarySource(r) ==
    /\ r.image = C11_Image.name
    /\ r.build = IF C11_Image.is_context
                 THEN Some([context |-> Unwrap(C11_Image.path)]) ELSE None

\* C11: the records parse_app_configuration returns.  Mesh enabled: a
\* primary record named n with depends_on ["placement"], networks
\* ["dapr-network"], the port resolver's ports, and no network_mode,
\* environment or command; then a sidecar named "n_dapr" with image
\* "daprio/daprd:edge", no build, depends_on [n], network_mode "service:n",
\* no ports, no networks, and a command with the app id n (the container
\* name, not mesh.appId), the app port in decimal ("0" when absent) and the
\* placement address "placement:50006".  Mesh not enabled: one record named
\* n with the port resolver's ports and every other optional field empty.
C11_RecordShapes ==
    ( /\ Returned("parse_app_configuration")
      /\ ~ret[1].panic
      /\ IsSome(ret[1].val) )
    => LET rs == Unwrap(ret[1].val)
           n == C11_Name
       IN  IF C11_MeshEnabled
           THEN /\ Len(rs) = 2
                /\ C11_PrimarySource(rs[1])
                /\ rs[1].name = n
                /\ rs[1].depends_on = Some(<< "placement" >>)
                /\ rs[1].networks = Some(<< "dapr-network" >>)
                /\ rs[1].ports = C11_Ports
                /\ rs[1].network_mode = None
                /\ rs[1].environment = None
                /\ rs[1].command = None
                /\ rs[2].name = n \o "_dapr"
                /\ rs[2].image = Some("daprio/daprd:edge")
                /\ rs[2].build = None
                /\ rs[2].depends_on = Some(<< n >>)
                /\ rs[2].network_mode = Some("service:" \o n)
                /\ rs[2].ports = None
                /\ rs[2].networks = None
                /\ rs[2].environment = None
                /\ rs[2].command =
                       Some(<< "./daprd", "-app-id", n, "-app-port", C4_Decimal(C11_AppPort),
                               "-placement-host-address", "placement:50006", "air" >>)
           ELSE /\ Len(rs) = 1
                /\ C11_PrimarySource(rs[1])
                /\ rs[1].name = n
                /\ rs[1].ports = C11_Ports
                /\ rs[1].depends_on = None
                /\ rs[1].networks = None
                /\ rs[1].network_mode = None
                /\ rs[1].environment = None
                /\ rs[1].command = None

\* C11 witness: mesh enabled for container "t" with appId "myapp" and no
\* appPort: the call has returned two records, the sidecar "t_dapr" with
\* app id "t" and app port "0" in its command.
C11_Witness ==
    /\ Returned("parse_app_configuration")
    /\ C11_MeshEnabled
    /\ C11_Name = "t"
    /\ Unwrap(C11_Dapr).appId = Some("myapp")
    /\ C11_AppPort = None
    /\ ~ret[1].panic
    /\ IsSome(ret[1].val)
    /\ Len(Unwrap(ret[1].val)) = 2
    /\ Unwrap(ret[1].val)[2].name = "t_dapr"
    /\ Unwrap(Unwrap(ret[1].val)[2].command)[3] = "t"
    /\ Unwrap(Unwrap(ret[1].val)[2].command)[5] = "0"

----------------------------------------------------------------------------
(* Catalog lookup of check_and_match_reference (SpecCalls) *)

\* the places of the catalog entries whose referenceName is the name looked
\* for, by equality of the strings
C12_Hits ==
    { i \in 1..Len(args.images) :
        /\ IsSome(args.images[i].referenceName)
        /\ Unwrap(args.images[i].referenceName) = args.resource.name }

\* C12: first match wins.  When catalog entries carry the name looked for,
\* and the entries before the earliest of them all carry a referenceName,
\* the call ends exactly as it does on the catalog that holds that earliest
\* entry alone: the path comes from its build context, and the entries after
\* it, duplicates or not, have no influence.
C12_FirstMatchWins ==
    ( /\ Returned("check_and_match_reference")
      /\ C12_Hits # {}
      /\ \A i \in 1..(Min(C12_Hits) - 1) : IsSome(args.images[i].referenceName) )
    => ret[1] = check_and_match_reference(<< args.images[Min(C12_Hits)] >>, args.resource)

\* C12 witness: two entries carry the name of the reference, with build
\* contexts that resolve to different paths; the call has returned the path
\* of the first.
C12_Witness ==
    /\ Returned("check_and_match_reference")
    /\ args.resource.is_reference
    /\ C12_Hits = { 1, 2 }
    /\ args.images[1].build.context = "${pulumi.cwd}/node-app"
    /\ args.images[2].build.context = "${env.dir}/app"
    /\ ret[1] = Ret(Some([name |-> None, path |-> Some("./node-app"), is_context |-> TRUE]))

====
